---- MODULE Spec2Model ----
(***************************************************************************)
(* PDFGeneratorTool of src/src/main.py: the text normalisation pipeline    *)
(* (_strip_page_markers, fence stripping, _unwrap_hardwrap_paragraphs,     *)
(* _standardize_tool_list_section, heading promotion, list-marker          *)
(* normalisation, blank-line cleanup) and the compile operation (_run).    *)
(*                                                                         *)
(* A text is a sequence of characters.  A character is a string naming one *)
(* code point: "a", " ", "\n", BULLET for U+2022, IDEOSTOP for U+3002,    *)
(* BACKTICK for U+0060.                                                    *)
(* Every regular expression of the source is translated to an operator     *)
(* that gives, for a start position, the position just after the match the *)
(* backtracking matcher finds there (0: no match).                         *)
(***************************************************************************)
EXTENDS Integers, Sequences, FiniteSets, TLC

BULLET == "BULLET"
IDEOSTOP == "IDEOSTOP"
BACKTICK == "BACKTICK"

\* ------------------------------------------------------------ characters

LowerMap ==
  ("A" :> "a") @@ ("B" :> "b") @@ ("C" :> "c") @@ ("D" :> "d") @@ ("E" :> "e") @@
  ("F" :> "f") @@ ("G" :> "g") @@ ("H" :> "h") @@ ("I" :> "i") @@ ("J" :> "j") @@
  ("K" :> "k") @@ ("L" :> "l") @@ ("M" :> "m") @@ ("N" :> "n") @@ ("O" :> "o") @@
  ("P" :> "p") @@ ("Q" :> "q") @@ ("R" :> "r") @@ ("S" :> "s") @@ ("T" :> "t") @@
  ("U" :> "u") @@ ("V" :> "v") @@ ("W" :> "w") @@ ("X" :> "x") @@ ("Y" :> "y") @@
  ("Z" :> "z")

LowerLetters ==
  {"a", "b", "c", "d", "e", "f", "g", "h", "i", "j", "k", "l", "m",
   "n", "o", "p", "q", "r", "s", "t", "u", "v", "w", "x", "y", "z"}

Lower(c) == IF c \in DOMAIN LowerMap THEN LowerMap[c] ELSE c

IsWS(c) == c \in {" ", "\n", "\t", "\r"}

IsDigit(c) == c \in {"0", "1", "2", "3", "4", "5", "6", "7", "8", "9"}

IsLetter(c) == c \in DOMAIN LowerMap \/ c \in LowerLetters

IsWord(c) == IsLetter(c) \/ IsDigit(c) \/ c = "_"

IsTag(c) == IsLetter(c) \/ IsDigit(c) \/ c \in {"_", "-"}

\* ------------------------------------------------------- string helpers

HasAt(s, i, lit) ==
  /\ i >= 1
  /\ i + Len(lit) - 1 <= Len(s)
  /\ \A k \in 1..Len(lit) : s[i + k - 1] = lit[k]

HasAtCI(s, i, lit) ==
  /\ i >= 1
  /\ i + Len(lit) - 1 <= Len(s)
  /\ \A k \in 1..Len(lit) : Lower(s[i + k - 1]) = Lower(lit[k])

\* F(e) with e evaluated once: an assignment to a local variable of the source.
With(e, F(_)) == CHOOSE r \in {F(x) : x \in {e}} : TRUE

\* The first position in lo..hi where P holds (hi + 1: none), and the last one
\* (lo - 1: none): the scans behind \s*, \d+, strip(), split() and re.sub.
First(lo, hi, P(_)) ==
  IF \E j \in lo..hi : P(j)
  THEN CHOOSE j \in lo..hi : P(j) /\ \A k \in lo..(j - 1) : ~P(k)
  ELSE hi + 1

Last(lo, hi, P(_)) ==
  IF \E j \in lo..hi : P(j)
  THEN CHOOSE j \in lo..hi : P(j) /\ \A k \in (j + 1)..hi : ~P(k)
  ELSE lo - 1

SkipWS(s, i) == First(i, Len(s), LAMBDA j : ~IsWS(s[j]))

SkipDigits(s, i) == First(i, Len(s), LAMBDA j : ~IsDigit(s[j]))

SkipTag(s, i) == First(i, Len(s), LAMBDA j : ~IsTag(s[j]))

SkipChar(s, i, c) == First(i, Len(s), LAMBDA j : s[j] # c)

SkipToNL(s, i) == First(i, Len(s), LAMBDA j : s[j] = "\n")

LastNonWS(s, j) == Last(1, j, LAMBDA k : ~IsWS(s[k]))

RStrip(s) == SubSeq(s, 1, LastNonWS(s, Len(s)))

Strip(s) == SubSeq(s, SkipWS(s, 1), LastNonWS(s, Len(s)))

RECURSIVE SplitFrom(_, _, _)
SplitFrom(s, i, acc) ==
  With(SkipToNL(s, i), LAMBDA n :
    IF n > Len(s) THEN Append(acc, SubSeq(s, i, Len(s)))
    ELSE With(Append(acc, SubSeq(s, i, n - 1)), LAMBDA a : SplitFrom(s, n + 1, a)))

SplitLines(s) == SplitFrom(s, 1, <<>>)

RECURSIVE JoinFrom(_, _, _)
JoinFrom(ls, i, acc) ==
  IF i > Len(ls) THEN acc
  ELSE With(IF i = 1 THEN ls[1] ELSE acc \o <<"\n">> \o ls[i],
            LAMBDA a : JoinFrom(ls, i + 1, a))

JoinLines(ls) == JoinFrom(ls, 1, <<>>)

\* re.sub / str.replace: scan left to right; at a position with a match, emit the
\* replacement and continue just after the match; the text between matches is
\* copied. ends[i] is the position after the match starting at i (0: none),
\* reps[i] its replacement.  No pattern of the source matches the empty string.
RECURSIVE SubScan(_, _, _, _, _)
SubScan(s, ends, reps, i, acc) ==
  With(First(i, Len(s), LAMBDA j : ends[j] # 0), LAMBDA m :
    IF m > Len(s) THEN acc \o SubSeq(s, i, Len(s))
    ELSE With(<<ends[m], acc \o SubSeq(s, i, m - 1) \o reps[m]>>,
              LAMBDA nx : SubScan(s, ends, reps, nx[1], nx[2])))

ReSub(s, ends, reps) == SubScan(s, ends, reps, 1, <<>>)

ReplaceLit(s, lit, rep) ==
  ReSub(s, [i \in 1..Len(s) |-> IF HasAt(s, i, lit) THEN i + Len(lit) ELSE 0],
           [i \in 1..Len(s) |-> rep])

\* s.replace("\r\n", "\n").replace("\r", "\n")
ReplaceCR(s) ==
  With(ReplaceLit(s, <<"\r", "\n">>, <<"\n">>), LAMBDA t : ReplaceLit(t, <<"\r">>, <<"\n">>))

\* (?m)^ : at the start of the text or just after a newline.
AtLineStart(s, i) == i = 1 \/ s[i - 1] = "\n"

\* \s*$ under (?m), from position d: the greedy \s* gives characters back until
\* the position is the end of the text or stands before a newline.
LastNLIn(s, lo, hi) ==
  LET p == Last(lo, hi, LAMBDA k : s[k] = "\n") IN IF p < lo THEN 0 ELSE p

WSThenLineEnd(s, d) ==
  LET e == SkipWS(s, d)
  IN IF e > Len(s) THEN e ELSE LastNLIn(s, d, e - 1)

\* \n{3,} -> \n\n
CollapseNewlines(s) ==
  ReSub(s, [i \in 1..Len(s) |->
              IF SkipChar(s, i, "\n") >= i + 3 THEN SkipChar(s, i, "\n") ELSE 0],
           [i \in 1..Len(s) |-> <<"\n", "\n">>])

\* ------------------------------------------------ _strip_page_markers

Page == <<"P", "a", "g", "e">>

\* (?m)^\s*Page\s+\d+\s*$
PageMatchEnd(s, i) ==
  IF ~AtLineStart(s, i) THEN 0
  ELSE LET p == SkipWS(s, i)
           q == p + Len(Page)
           r == SkipWS(s, q)
           d == SkipDigits(s, r)
       IN IF HasAt(s, p, Page) /\ r > q /\ d > r THEN WSThenLineEnd(s, d) ELSE 0

StripPageMarkers(s) ==
  ReSub(s, [i \in 1..Len(s) |-> PageMatchEnd(s, i)], [i \in 1..Len(s) |-> <<>>])

\* ------------------------------------------------------ fence stripping

Fence3 == <<BACKTICK, BACKTICK, BACKTICK>>
Fence2 == <<BACKTICK, BACKTICK>>
Markdown == <<"m", "a", "r", "k", "d", "o", "w", "n">>

\* three backticks, [a-zA-Z0-9_-]*, \n?
FenceTagEnd(s, i) ==
  IF ~HasAt(s, i, Fence3) THEN 0
  ELSE LET j == SkipTag(s, i + 3)
       IN IF j <= Len(s) /\ s[j] = "\n" THEN j + 1 ELSE j

\* two backticks, \s*markdown\s*   (re.IGNORECASE)
Fence2MarkdownEnd(s, i) ==
  IF ~HasAt(s, i, Fence2) THEN 0
  ELSE LET p == SkipWS(s, i + 2)
       IN IF HasAtCI(s, p, Markdown) THEN SkipWS(s, p + Len(Markdown)) ELSE 0

\* re.sub(three backticks + tag + optional newline, "", s)
StripFenceTags(s) ==
  ReSub(s, [i \in 1..Len(s) |-> FenceTagEnd(s, i)], [i \in 1..Len(s) |-> <<>>])

\* re.sub(two backticks + markdown, "", s, flags=re.IGNORECASE)
StripFence2Markdown(s) ==
  ReSub(s, [i \in 1..Len(s) |-> Fence2MarkdownEnd(s, i)], [i \in 1..Len(s) |-> <<>>])

StripFence3(s) == ReplaceLit(s, Fence3, <<>>)

StripFence2(s) == ReplaceLit(s, Fence2, <<>>)

\* StripFences without the last s.replace of the two-backtick marker
StripFences_keepsPairs(s) ==
  With(With(StripFenceTags(s), StripFence3), StripFence2Markdown)

StripFences(s) ==
  With(With(With(StripFenceTags(s), StripFence3), StripFence2Markdown), StripFence2)

\* ------------------------------------- _unwrap_hardwrap_paragraphs

MaxHashes == 6

\* ^\s*#{1,6}\s+\S
IsHeadingRe(l) ==
  LET p == SkipWS(l, 1)
      h == SkipChar(l, p, "#")
      e == SkipWS(l, h)
  IN h - p >= 1 /\ h - p <= MaxHashes /\ e > h /\ e <= Len(l)

\* ([marks]|\d+[closers]) at p: the position after the marker, 0 if none.
ListMarkEnd(l, p, marks, closers) ==
  IF p <= Len(l) /\ l[p] \in marks THEN p + 1
  ELSE LET d == SkipDigits(l, p)
       IN IF d > p /\ d <= Len(l) /\ l[d] \in closers THEN d + 1 ELSE 0

\* ^\s*(marker)\s+\S
IsListRe(l, marks, closers) ==
  LET m == ListMarkEnd(l, SkipWS(l, 1), marks, closers)
  IN m # 0 /\ SkipWS(l, m) > m /\ SkipWS(l, m) <= Len(l)

\* is_heading / is_list of the reflow stage
ReflowIsHeading(line) == IsHeadingRe(line)

ReflowIsList(line) == IsListRe(line, {"-", "*", "+", BULLET}, {".", ")"})

Flush(st) ==
  IF st.buf # <<>> THEN [out |-> Append(st.out, Strip(st.buf)), buf |-> <<>>] ELSE st

\* one iteration of "for raw in lines"
\* UnwrapStep without the flush of buf at a blank line
UnwrapStep_joinsAcrossBlank(st, rawline) ==
  LET line == RStrip(rawline)
  IN IF Strip(line) = <<>>
     THEN [out |-> Append(st.out, <<>>), buf |-> st.buf]
     ELSE IF ReflowIsHeading(line) \/ ReflowIsList(line)
     THEN [out |-> Append(Flush(st).out, Strip(line)), buf |-> <<>>]
     ELSE [out |-> st.out,
           buf |-> IF st.buf = <<>> THEN Strip(line)
                   ELSE st.buf \o <<" ">> \o Strip(line)]

UnwrapStep(st, rawline) ==
  LET line == RStrip(rawline)
  IN IF Strip(line) = <<>>
     THEN [out |-> Append(Flush(st).out, <<>>), buf |-> <<>>]
     ELSE IF ReflowIsHeading(line) \/ ReflowIsList(line)
     THEN [out |-> Append(Flush(st).out, Strip(line)), buf |-> <<>>]
     ELSE [out |-> st.out,
           buf |-> IF st.buf = <<>> THEN Strip(line)
                   ELSE st.buf \o <<" ">> \o Strip(line)]

RECURSIVE UnwrapLoop(_, _, _)
UnwrapLoop(ls, i, st) ==
  IF i > Len(ls) THEN st
  ELSE With(UnwrapStep(st, ls[i]), LAMBDA nx : UnwrapLoop(ls, i + 1, nx))

UnwrapStart == [out |-> <<>>, buf |-> <<>>]

\* after the loop: the last flush, the join, \n{3,} -> \n\n, strip()
UnwrapFinish(st) == With(With(JoinLines(Flush(st).out), CollapseNewlines), Strip)

Unwrap(s) ==
  With(SplitLines(ReplaceCR(s)),
       LAMBDA ls : UnwrapFinish(UnwrapLoop(ls, 1, UnwrapStart)))

\* ----------------------------------- _standardize_tool_list_section

NameMaxLen == 60
DescMinLen == 30

Title ==
  <<"L", "i", "b", "r", "a", "r", "i", "e", "s", " ", "a", "n", "d", " ",
    "T", "o", "o", "l", "s">>

CanonicalTitle == <<"#", "#", " ">> \o Title

NameOpeners ==
  { <<"A">>, <<"A", "n">>, <<"T", "h", "e">>, <<"T", "h", "i", "s">>, <<"I", "t">>,
    <<"U", "s", "e", "d">>, <<"P", "r", "o", "v", "i", "d", "e", "s">>,
    <<"P", "a", "r", "t">>, <<"A", " ", "p", "a", "r", "t">> }

DescOpeners ==
  { <<"A">>, <<"A", "n">>, <<"T", "h", "e">>,
    <<"U", "s", "e", "d">>, <<"P", "r", "o", "v", "i", "d", "e", "s">>,
    <<"P", "a", "r", "t">>, <<"A", " ", "p", "a", "r", "t">> }

\* re.match(r"^(w1|w2|...)\b", t, re.IGNORECASE)
StartsWithOpener(t, openers) ==
  \E w \in openers :
    HasAtCI(t, 1, w) /\ (Len(t) = Len(w) \/ ~IsWord(t[Len(w) + 1]))

StdIsHeading(l) == IsHeadingRe(Strip(l))

StdIsListItem(l) == IsListRe(Strip(l), {"-", "*", "+"}, {"."})

\* re.sub(r"^\s*[bullet glyph, -, *, +]\s+", "", l.strip())
CleanBulletPrefix(l) ==
  LET t == Strip(l)
      p == SkipWS(t, 1)
  IN IF p <= Len(t) /\ t[p] \in {BULLET, "-", "*", "+"} /\ SkipWS(t, p + 1) > p + 1
     THEN SubSeq(t, SkipWS(t, p + 1), Len(t))
     ELSE t

EndsSentence(t) == t # <<>> /\ t[Len(t)] \in {IDEOSTOP, ".", "!", "?"}

\* LooksLikeToolName with "len(t) >= 60" as the length test
LooksLikeToolName_below60(l) ==
  LET t == Strip(l)
  IN /\ t # <<>>
     /\ ~(StdIsHeading(t) \/ StdIsListItem(t))
     /\ ~(Len(t) >= NameMaxLen)
     /\ ~EndsSentence(t)
     /\ ~StartsWithOpener(t, NameOpeners)

LooksLikeToolName(l) ==
  LET t == Strip(l)
  IN /\ t # <<>>
     /\ ~(StdIsHeading(t) \/ StdIsListItem(t))
     /\ ~(Len(t) > NameMaxLen)
     /\ ~EndsSentence(t)
     /\ ~StartsWithOpener(t, NameOpeners)

LooksLikeDescription(l) ==
  LET t == CleanBulletPrefix(l)
  IN /\ t # <<>>
     /\ ~(StdIsHeading(t) \/ StdIsListItem(t))
     /\ (Len(t) > DescMinLen \/ StartsWithOpener(t, DescOpeners))

\* (?i)^\s*##\s*Libraries and Tools\s*$  or  (?i)^\s*Libraries and Tools\s*$
IsTitleLine(stripped) ==
  LET p == SkipWS(stripped, 1)
      q == SkipWS(stripped, p + 2)
  IN \/ /\ HasAt(stripped, p, <<"#", "#">>)
        /\ HasAtCI(stripped, q, Title)
        /\ SkipWS(stripped, q + Len(Title)) > Len(stripped)
     \/ /\ HasAtCI(stripped, p, Title)
        /\ SkipWS(stripped, p + Len(Title)) > Len(stripped)

\* re.search(r"(?i)Libraries and Tools", stripped)
ContainsTitle(stripped) == \E i \in 1..Len(stripped) : HasAtCI(stripped, i, Title)

Bullet(name) == <<"-", " ", "*", "*">> \o name \o <<"*", "*">>

BulletWithDesc(name, desc) == <<"-", " ", "*", "*">> \o name \o <<"*", "*", ":", " ">> \o desc

\* StdStep with the bullet prefix cleaned outside the section as well
StdStep_cleansOutside(ls, st) ==
  LET i == st.i
      line == ls[i]
      stripped == Strip(line)
      stillIn == st.inLib /\ ~(StdIsHeading(line) /\ ~ContainsTitle(stripped))
      candidate == CleanBulletPrefix(line)
      nextLine == IF i + 1 <= Len(ls) THEN ls[i + 1] ELSE <<>>
  IN IF IsTitleLine(stripped)
     THEN [i |-> i + 1, inLib |-> TRUE, out |-> Append(st.out, CanonicalTitle)]
     ELSE IF ~stillIn
     THEN [i |-> i + 1, inLib |-> FALSE, out |-> Append(st.out, candidate)]
     ELSE IF stripped = <<>>
     THEN [i |-> i + 1, inLib |-> TRUE, out |-> Append(st.out, <<>>)]
     ELSE IF StdIsListItem(line)
     THEN [i |-> i + 1, inLib |-> TRUE, out |-> Append(st.out, line)]
     ELSE IF LooksLikeToolName(candidate)
     THEN IF Strip(nextLine) # <<>> /\ LooksLikeDescription(nextLine)
          THEN [i |-> i + 2, inLib |-> TRUE,
                out |-> Append(st.out, BulletWithDesc(candidate, CleanBulletPrefix(nextLine)))]
          ELSE [i |-> i + 1, inLib |-> TRUE, out |-> Append(st.out, Bullet(candidate))]
     ELSE [i |-> i + 1, inLib |-> TRUE, out |-> Append(st.out, candidate)]

\* StdStep with "i += 1" after the two-line bullet: the description line is
\* emitted with the name and then processed again on its own
StdStep_consumesOne(ls, st) ==
  LET i == st.i
      line == ls[i]
      stripped == Strip(line)
      stillIn == st.inLib /\ ~(StdIsHeading(line) /\ ~ContainsTitle(stripped))
      candidate == CleanBulletPrefix(line)
      nextLine == IF i + 1 <= Len(ls) THEN ls[i + 1] ELSE <<>>
  IN IF IsTitleLine(stripped)
     THEN [i |-> i + 1, inLib |-> TRUE, out |-> Append(st.out, CanonicalTitle)]
     ELSE IF ~stillIn
     THEN [i |-> i + 1, inLib |-> FALSE, out |-> Append(st.out, line)]
     ELSE IF stripped = <<>>
     THEN [i |-> i + 1, inLib |-> TRUE, out |-> Append(st.out, <<>>)]
     ELSE IF StdIsListItem(line)
     THEN [i |-> i + 1, inLib |-> TRUE, out |-> Append(st.out, line)]
     ELSE IF LooksLikeToolName(candidate)
     THEN IF Strip(nextLine) # <<>> /\ LooksLikeDescription(nextLine)
          THEN [i |-> i + 1, inLib |-> TRUE,
                out |-> Append(st.out, BulletWithDesc(candidate, CleanBulletPrefix(nextLine)))]
          ELSE [i |-> i + 1, inLib |-> TRUE, out |-> Append(st.out, Bullet(candidate))]
     ELSE [i |-> i + 1, inLib |-> TRUE, out |-> Append(st.out, candidate)]

\* one iteration of "while i < len(lines)"; st.inLib is in_lib_section
\* StdStep with the last branch emitting a bullet as well
StdStep_bulletsProse(ls, st) ==
  LET i == st.i
      line == ls[i]
      stripped == Strip(line)
      stillIn == st.inLib /\ ~(StdIsHeading(line) /\ ~ContainsTitle(stripped))
      candidate == CleanBulletPrefix(line)
      nextLine == IF i + 1 <= Len(ls) THEN ls[i + 1] ELSE <<>>
  IN IF IsTitleLine(stripped)
     THEN [i |-> i + 1, inLib |-> TRUE, out |-> Append(st.out, CanonicalTitle)]
     ELSE IF ~stillIn
     THEN [i |-> i + 1, inLib |-> FALSE, out |-> Append(st.out, line)]
     ELSE IF stripped = <<>>
     THEN [i |-> i + 1, inLib |-> TRUE, out |-> Append(st.out, <<>>)]
     ELSE IF StdIsListItem(line)
     THEN [i |-> i + 1, inLib |-> TRUE, out |-> Append(st.out, line)]
     ELSE IF LooksLikeToolName(candidate)
     THEN IF Strip(nextLine) # <<>> /\ LooksLikeDescription(nextLine)
          THEN [i |-> i + 2, inLib |-> TRUE,
                out |-> Append(st.out, BulletWithDesc(candidate, CleanBulletPrefix(nextLine)))]
          ELSE [i |-> i + 1, inLib |-> TRUE, out |-> Append(st.out, Bullet(candidate))]
     ELSE [i |-> i + 1, inLib |-> TRUE, out |-> Append(st.out, Bullet(candidate))]

StdStep(ls, st) ==
  LET i == st.i
      line == ls[i]
      stripped == Strip(line)
      stillIn == st.inLib /\ ~(StdIsHeading(line) /\ ~ContainsTitle(stripped))
      candidate == CleanBulletPrefix(line)
      nextLine == IF i + 1 <= Len(ls) THEN ls[i + 1] ELSE <<>>
  IN IF IsTitleLine(stripped)
     THEN [i |-> i + 1, inLib |-> TRUE, out |-> Append(st.out, CanonicalTitle)]
     ELSE IF ~stillIn
     THEN [i |-> i + 1, inLib |-> FALSE, out |-> Append(st.out, line)]
     ELSE IF stripped = <<>>
     THEN [i |-> i + 1, inLib |-> TRUE, out |-> Append(st.out, <<>>)]
     ELSE IF StdIsListItem(line)
     THEN [i |-> i + 1, inLib |-> TRUE, out |-> Append(st.out, line)]
     ELSE IF LooksLikeToolName(candidate)
     THEN IF Strip(nextLine) # <<>> /\ LooksLikeDescription(nextLine)
          THEN [i |-> i + 2, inLib |-> TRUE,
                out |-> Append(st.out, BulletWithDesc(candidate, CleanBulletPrefix(nextLine)))]
          ELSE [i |-> i + 1, inLib |-> TRUE, out |-> Append(st.out, Bullet(candidate))]
     ELSE [i |-> i + 1, inLib |-> TRUE, out |-> Append(st.out, candidate)]

StdStart == [i |-> 1, inLib |-> FALSE, out |-> <<>>]

RECURSIVE StdLoop(_, _)
StdLoop(ls, st) ==
  IF st.i > Len(ls) THEN st
  ELSE With(StdStep(ls, st), LAMBDA nx : StdLoop(ls, nx))

Standardize(md) ==
  With(SplitLines(ReplaceCR(md)), LAMBDA ls : JoinLines(StdLoop(ls, StdStart).out))

\* -------------------------------------------------- _normalize_markdown

SectionWords ==
  << <<"O", "v", "e", "r", "v", "i", "e", "w">>,
     <<"F", "e", "a", "t", "u", "r", "e", "s">>,
     <<"R", "i", "s", "k", "s">>,
     <<"C", "o", "m", "p", "e", "t", "i", "t", "o", "r", "s">>,
     <<"C", "o", "n", "c", "l", "u", "s", "i", "o", "n">> >>

\* (?mi)^\s*{w}\s*$
PromoteEnd(s, i, w) ==
  IF ~AtLineStart(s, i) THEN 0
  ELSE LET p == SkipWS(s, i)
       IN IF HasAtCI(s, p, w) THEN WSThenLineEnd(s, p + Len(w)) ELSE 0

PromoteWord(s, w) ==
  ReSub(s, [i \in 1..Len(s) |-> PromoteEnd(s, i, w)],
           [i \in 1..Len(s) |-> <<"#", "#", " ">> \o w])

RECURSIVE PromoteFrom(_, _)
PromoteFrom(s, w) ==
  IF w > Len(SectionWords) THEN s
  ELSE With(PromoteWord(s, SectionWords[w]), LAMBDA t : PromoteFrom(t, w + 1))

Promote(s) == PromoteFrom(s, 1)

\* (?m)^\s*(bullet glyph)\s+  ->  "- "
GlyphEnd(s, i) ==
  IF ~AtLineStart(s, i) THEN 0
  ELSE LET p == SkipWS(s, i)
           e == SkipWS(s, p + 1)
       IN IF p <= Len(s) /\ s[p] = BULLET /\ e > p + 1 THEN e ELSE 0

\* (?m)^\s*(\d+)\)\s+  ->  "\1. "
ParenEnd(s, i) ==
  IF ~AtLineStart(s, i) THEN 0
  ELSE LET p == SkipWS(s, i)
           d == SkipDigits(s, p)
           e == SkipWS(s, d + 1)
       IN IF d > p /\ d <= Len(s) /\ s[d] = ")" /\ e > d + 1 THEN e ELSE 0

NormalizeGlyphs(s) ==
  ReSub(s, [i \in 1..Len(s) |-> GlyphEnd(s, i)], [i \in 1..Len(s) |-> <<"-", " ">>])

NormalizeParens(s) ==
  ReSub(s, [i \in 1..Len(s) |-> ParenEnd(s, i)],
           [i \in 1..Len(s) |->
              SubSeq(s, SkipWS(s, i), SkipDigits(s, SkipWS(s, i)) - 1) \o <<".", " ">>])

NormalizeMarkers(s) == With(NormalizeGlyphs(s), NormalizeParens)

LastNonNLIn(s, lo, hi) ==
  LET p == Last(lo, hi, LAMBDA k : s[k] # "\n") IN IF p < lo THEN 0 ELSE p

\* (?m)^(#{1,6}\s+.+)$ : the greedy \s+ gives characters back to .+ when the
\* whitespace runs to the end of the text.
HeadingLineEnd(s, i) ==
  IF ~AtLineStart(s, i) THEN 0
  ELSE LET h == SkipChar(s, i, "#")
           e == SkipWS(s, h)
       IN IF h - i < 1 \/ h - i > MaxHashes \/ e = h THEN 0
          ELSE IF e <= Len(s) THEN SkipToNL(s, e)
          ELSE IF LastNonNLIn(s, h + 1, Len(s)) = 0 THEN 0
          ELSE LastNonNLIn(s, h + 1, Len(s)) + 1

BlankAfterHeadings(s) ==
  ReSub(s, [i \in 1..Len(s) |-> HeadingLineEnd(s, i)],
           [i \in 1..Len(s) |-> SubSeq(s, i, HeadingLineEnd(s, i) - 1) \o <<"\n">>])

Cleanup(s) == With(CollapseNewlines(s), Strip)

Normalize(s) ==
  IF s = <<>> THEN <<>>
  ELSE With(With(With(With(With(With(With(With(ReplaceCR(s),
         StripPageMarkers), StripFences), Unwrap), Standardize), Promote),
         NormalizeMarkers), BlankAfterHeadings), Cleanup)

\* ---------------------------------------------------------------- _run

\* html.escape(s): quote=True
EscapeChar(c) ==
  CASE c = "&" -> <<"&", "a", "m", "p", ";">>
    [] c = "<" -> <<"&", "l", "t", ";">>
    [] c = ">" -> <<"&", "g", "t", ";">>
    [] c = "\"" -> <<"&", "q", "u", "o", "t", ";">>
    [] c = "'" -> <<"&", "#", "x", "2", "7", ";">>
    [] OTHER -> <<c>>

HtmlEscape(s) ==
  ReSub(s, [i \in 1..Len(s) |-> IF EscapeChar(s[i]) # <<s[i]>> THEN i + 1 ELSE 0],
           [i \in 1..Len(s) |-> EscapeChar(s[i])])

\* rstrip("\n")
RStripNL(s) == SubSeq(s, 1, Last(1, Len(s), LAMBDA k : s[k] # "\n"))

\* "strip code fences if any": lines[1:-1] of the stripped content
StripCodeFence(content) ==
  With(Strip(content), LAMBDA rawCode :
    With(SplitLines(rawCode), LAMBDA ls :
      IF HasAt(rawCode, 1, Fence3) /\ Len(ls) >= 2
      THEN With(JoinLines(SubSeq(ls, 2, Len(ls) - 1)), RStripNL)
      ELSE rawCode))

\* _render_markdown_to_html: markdown.markdown is the external renderer of one
\* section; its result is kept as the normalised text it is given.
RenderMarkdown(mdText) == [tag |-> "markdown", text |-> Normalize(mdText)]

SpecFile == "lite_output/1_spec.md"
TechFile == "lite_output/2_tech_stack.md"
CodeFile == "lite_output/3_mvp_skeleton.md"

Files == {SpecFile, TechFile, CodeFile}

Phase1Title ==
  <<"P", "h", "a", "s", "e", " ", "1", ":", " ", "P", "r", "o", "d", "u", "c", "t", " ",
    "S", "p", "e", "c", "i", "f", "i", "c", "a", "t", "i", "o", "n">>

Phase2Title ==
  <<"P", "h", "a", "s", "e", " ", "2", ":", " ", "T", "e", "c", "h", " ",
    "S", "t", "a", "c", "k">>

Phase3Title ==
  <<"P", "h", "a", "s", "e", " ", "3", ":", " ", "M", "V", "P", " ",
    "S", "k", "e", "l", "e", "t", "o", "n", " ", "C", "o", "d", "e">>

\* file_map, in list order
FileMap ==
  << [path |-> SpecFile, title |-> Phase1Title],
     [path |-> TechFile, title |-> Phase2Title] >>

\* the files removed after a successful render, in list order
RemoveList == <<SpecFile, TechFile, CodeFile>>

\* html_parts before the sections: document head with the style sheet, the page
\* number footer, the report title, a rule
HtmlHead ==
  << [tag |-> "html-head-style-body", text |-> <<>>],
     [tag |-> "footerContent", text |-> <<>>],
     [tag |-> "h1-title", text |-> <<>>],
     [tag |-> "hr", text |-> <<>>] >>

HtmlTail == << [tag |-> "body-html-end", text |-> <<>>] >>

SectionParts(title, content) ==
  << [tag |-> "h2", text |-> HtmlEscape(title)],
     RenderMarkdown(content),
     [tag |-> "pdf:nextpage", text |-> <<>>] >>

CodeParts(content) ==
  << [tag |-> "h2", text |-> Phase3Title],
     [tag |-> "pre.code-box", text |-> HtmlEscape(StripCodeFence(content))] >>

\* os.path.dirname of a path given by its components
Dirname(path) == SubSeq(path, 1, Len(path) - 1)

NoFile == [exists |-> FALSE, content |-> <<>>]

FileOf(content) == [exists |-> TRUE, content |-> content]

VARIABLES
  pc,           \* position of _run: idle, makedirs, section, code, render, check,
                \* remove, return, returned
  k,            \* index into file_map / the remove list
  fs,           \* the intermediate files: path -> [exists, content]
  fs0,          \* fs as it was when _run was called
  outPath,      \* output_filename
  parts,        \* html_parts
  artifact,     \* the output files: path -> [exists, content]
  status,       \* pisa_status.err as <<err>>, <<>> before the renderer ran
  result,       \* the returned message, <<>> before the return
  calls,        \* calls of _run so far
  renderCalls,  \* calls of pisa.CreatePDF in the current call of _run
  prev,         \* <<result, output_filename>> of the call before the current one
  raw,          \* text handed to a normalisation stage
  stage,        \* position in the normalisation pipeline
  cur,          \* text after the stages applied so far
  pass,         \* 1: first call of _normalize_markdown, 2: second call on its result
  snap,         \* stage -> text after that stage of the first call
  lines,        \* the split input of a stage loop
  idx,          \* the loop index of the reflow loop
  st            \* the other local variables of a stage loop

compileVars ==
  <<pc, k, fs, fs0, outPath, parts, artifact, status, result, calls, renderCalls, prev>>

textVars == <<raw, stage, cur, pass, snap, lines, idx, st>>

vars == <<compileVars, textVars>>

\* ------------------------------------------------------- bounds and inputs

MaxCalls == 2

Txt_a == <<"a">>
Txt_Risks == <<"R", "i", "s", "k", "s">>
Txt_x == <<"x">>
Txt_fenced == <<BACKTICK, BACKTICK, BACKTICK, "p", "y", "\n", "x", "<", "y", "\n",
                BACKTICK, BACKTICK, BACKTICK>>
Txt_halfFenced == <<BACKTICK, BACKTICK, BACKTICK, "\n", "x", "\n", "y">>

SectionTexts == {Txt_a, Txt_Risks}

CodeTexts == {Txt_x, Txt_fenced, Txt_halfFenced}

OutPaths == { <<"out", "report.pdf">>, <<"report.pdf">> }

RenderErrs == {1, 2}

TextIdle ==
  /\ raw = <<>> /\ stage = "idle" /\ cur = <<>> /\ pass = 0
  /\ snap = <<>> /\ lines = <<>> /\ idx = 0 /\ st = <<>>

CompileIdle ==
  /\ pc = "idle" /\ k = 0 /\ fs = [f \in Files |-> NoFile] /\ fs0 = [f \in Files |-> NoFile]
  /\ outPath = <<>> /\ parts = <<>> /\ artifact = [p \in OutPaths |-> NoFile]
  /\ status = <<>> /\ result = <<>> /\ calls = 0 /\ renderCalls = 0 /\ prev = <<>>

\* --------------------------------------------------------- _run, by steps

Init ==
  /\ pc = "idle" /\ k = 0
  /\ fs \in [Files -> {NoFile} \cup {FileOf(c) : c \in SectionTexts \cup CodeTexts}]
  /\ \A f \in {SpecFile, TechFile} : fs[f].exists => fs[f].content \in SectionTexts
  /\ fs[CodeFile].exists => fs[CodeFile].content \in CodeTexts
  /\ fs0 = fs
  /\ outPath = <<>> /\ parts = <<>>
  /\ artifact = [p \in OutPaths |-> NoFile]
  /\ status = <<>> /\ result = <<>> /\ calls = 0 /\ renderCalls = 0 /\ prev = <<>>
  /\ TextIdle

\* Raise without the except clause: the exception leaves _run
Raise_propagates(cause) ==
  /\ pc' = "raised"
  /\ result' = <<>>

\* the except clause: any exception becomes the returned message
Raise(cause) ==
  /\ pc' = "returned"
  /\ result' = <<"Exception during PDF creation", cause>>

Call(path) ==
  /\ pc \in {"idle", "returned"}
  /\ calls < MaxCalls
  /\ pc' = "makedirs" /\ k' = 0
  /\ outPath' = path
  /\ fs0' = fs
  /\ parts' = <<>> /\ status' = <<>> /\ result' = <<>>
  /\ calls' = calls + 1 /\ renderCalls' = 0
  /\ prev' = <<result, outPath>>
  /\ UNCHANGED <<fs, artifact>>
  /\ UNCHANGED textVars

\* os.makedirs(os.path.dirname(output_filename), exist_ok=True), then the head
MakeDirs ==
  /\ pc = "makedirs"
  /\ \/ /\ Dirname(outPath) = <<>>
        /\ Raise("FileNotFoundError: makedirs")
        /\ UNCHANGED <<k, parts>>
     \/ /\ Dirname(outPath) # <<>>
        /\ Raise("OSError: makedirs")
        /\ UNCHANGED <<k, parts>>
     \/ /\ Dirname(outPath) # <<>>
        /\ pc' = "section" /\ k' = 1
        /\ parts' = HtmlHead
        /\ UNCHANGED result
  /\ UNCHANGED <<fs, fs0, outPath, artifact, status, calls, renderCalls>>
  /\ UNCHANGED <<prev, textVars>>

\* Section without "if os.path.exists(filepath)": a missing file read as empty
Section_emitsMissing ==
  /\ pc = "section"
  /\ pc' = (IF k = Len(FileMap) THEN "code" ELSE "section") /\ k' = k + 1
  /\ parts' = parts \o SectionParts(FileMap[k].title, fs[FileMap[k].path].content)
  /\ UNCHANGED <<fs, fs0, outPath, artifact, status, result, calls, renderCalls>>
  /\ UNCHANGED <<prev, textVars>>

\* one iteration of "for filepath, section_title in file_map"
Section ==
  /\ pc = "section"
  /\ LET e == FileMap[k]
         next == IF k = Len(FileMap) THEN "code" ELSE "section"
     IN \/ /\ ~fs[e.path].exists
           /\ pc' = next /\ k' = k + 1
           /\ UNCHANGED <<parts, result>>
        \/ /\ fs[e.path].exists
           /\ pc' = next /\ k' = k + 1
           /\ parts' = parts \o SectionParts(e.title, fs[e.path].content)
           /\ UNCHANGED result
        \/ /\ fs[e.path].exists
           /\ Raise("OSError: read")
           /\ UNCHANGED <<k, parts>>
  /\ UNCHANGED <<fs, fs0, outPath, artifact, status, calls, renderCalls>>
  /\ UNCHANGED <<prev, textVars>>

\* Code without "if os.path.exists(code_file)": a missing file read as empty
Code_emitsMissing ==
  /\ pc = "code"
  /\ pc' = "render"
  /\ parts' = parts \o CodeParts(fs[CodeFile].content) \o HtmlTail
  /\ UNCHANGED <<k, fs, fs0, outPath, artifact, status, result, calls, renderCalls>>
  /\ UNCHANGED <<prev, textVars>>

\* the code file, then the closing tags
Code ==
  /\ pc = "code"
  /\ \/ /\ ~fs[CodeFile].exists
        /\ pc' = "render"
        /\ parts' = parts \o HtmlTail
        /\ UNCHANGED result
     \/ /\ fs[CodeFile].exists
        /\ pc' = "render"
        /\ parts' = parts \o CodeParts(fs[CodeFile].content) \o HtmlTail
        /\ UNCHANGED result
     \/ /\ fs[CodeFile].exists
        /\ Raise("OSError: read")
        /\ UNCHANGED parts
  /\ UNCHANGED <<k, fs, fs0, outPath, artifact, status, calls, renderCalls>>
  /\ UNCHANGED <<prev, textVars>>

\* open(output_filename, "wb") and pisa.CreatePDF(full_html, dest=pdf_file)
Render ==
  /\ pc = "render"
  /\ \/ /\ Raise("OSError: open")
        /\ UNCHANGED <<artifact, status, renderCalls>>
     \/ /\ Raise("renderer exception")
        /\ artifact' = [artifact EXCEPT ![outPath] = FileOf(<<>>)]
        /\ renderCalls' = renderCalls + 1
        /\ UNCHANGED status
     \/ /\ pc' = "check"
        /\ artifact' = [artifact EXCEPT ![outPath] = FileOf(parts)]
        /\ status' = <<0>>
        /\ renderCalls' = renderCalls + 1
        /\ UNCHANGED result
     \/ /\ \E err \in RenderErrs : status' = <<err>>
        /\ pc' = "check"
        /\ artifact' = [artifact EXCEPT ![outPath] = FileOf(<<>>)]
        /\ renderCalls' = renderCalls + 1
        /\ UNCHANGED result
  /\ UNCHANGED <<k, fs, fs0, outPath, parts, calls>>
  /\ UNCHANGED <<prev, textVars>>

\* CheckStatus without the test of pisa_status.err
CheckStatus_ignoresError ==
  /\ pc = "check"
  /\ pc' = "remove" /\ k' = 1
  /\ UNCHANGED <<fs, fs0, outPath, parts, artifact, status, result, calls, renderCalls>>
  /\ UNCHANGED <<prev, textVars>>

\* if pisa_status.err: return the error message
CheckStatus ==
  /\ pc = "check"
  /\ IF status[1] # 0
     THEN /\ pc' = "returned"
          /\ result' = <<"Error creating PDF", status[1]>>
          /\ UNCHANGED k
     ELSE /\ pc' = "remove" /\ k' = 1
          /\ UNCHANGED result
  /\ UNCHANGED <<fs, fs0, outPath, parts, artifact, status, calls, renderCalls>>
  /\ UNCHANGED <<prev, textVars>>

\* Remove without the call of os.remove
Remove_keepsFile ==
  /\ pc = "remove"
  /\ pc' = (IF k = Len(RemoveList) THEN "return" ELSE "remove") /\ k' = k + 1
  /\ UNCHANGED <<fs, fs0, outPath, parts, artifact, status, result, calls, renderCalls>>
  /\ UNCHANGED <<prev, textVars>>

\* one iteration of the loop over the files to remove
Remove ==
  /\ pc = "remove"
  /\ LET f == RemoveList[k]
         next == IF k = Len(RemoveList) THEN "return" ELSE "remove"
     IN \/ /\ ~fs[f].exists
           /\ pc' = next /\ k' = k + 1
           /\ UNCHANGED <<fs, result>>
        \/ /\ fs[f].exists
           /\ pc' = next /\ k' = k + 1
           /\ fs' = [fs EXCEPT ![f] = NoFile]
           /\ UNCHANGED result
        \/ /\ fs[f].exists
           /\ Raise("OSError: remove")
           /\ UNCHANGED <<k, fs>>
  /\ UNCHANGED <<fs0, outPath, parts, artifact, status, calls, renderCalls>>
  /\ UNCHANGED <<prev, textVars>>

Return ==
  /\ pc = "return"
  /\ pc' = "returned"
  /\ result' = <<"Successfully compiled PDF report at", outPath>>
  /\ UNCHANGED <<k, fs, fs0, outPath, parts, artifact, status, calls, renderCalls>>
  /\ UNCHANGED <<prev, textVars>>

RunCall == \E path \in OutPaths : Call(path)

Next ==
  \/ RunCall
  \/ MakeDirs
  \/ Section
  \/ Code
  \/ Render
  \/ CheckStatus
  \/ Remove
  \/ Return

Spec == Init /\ [][Next]_vars

\* ------------------------------------------------------- claims on _run

ExceptionMsg == "Exception during PDF creation"
SuccessMsg == "Successfully compiled PDF report at"
ErrorMsg == "Error creating PDF"

Returned == pc = "returned"

RendererSucceeded == status = <<0>>

RendererFailed == status # <<>> /\ status[1] # 0

NoException == Returned /\ result[1] # ExceptionMsg

\* C1: once the renderer has reported success and no step raised, a returned
\* _run has deleted every intermediate input file and its result is the
\* success message naming the caller's output path; and at every moment a
\* file that differs from what it was at the call has been deleted after the
\* renderer reported success, never before.
C1_SuccessDeletesInputs ==
  /\ (RendererSucceeded /\ NoException) =>
        /\ result = <<SuccessMsg, outPath>>
        /\ \A f \in Files : ~fs[f].exists
  /\ \A f \in Files :
        fs[f] # fs0[f] =>
          /\ RendererSucceeded
          /\ pc \in {"remove", "return", "returned"}
          /\ ~fs[f].exists

\* C1 case: all three files existed at the call, the renderer succeeded and
\* _run returned the success message.
C1_Witness ==
  /\ Returned /\ RendererSucceeded
  /\ result = <<SuccessMsg, outPath>>
  /\ \A f \in Files : fs0[f].exists /\ ~fs[f].exists

\* C2: when the renderer reports an error the renderer has been invoked once
\* in this call, every intermediate file is as it was at the call, and the
\* returned result is the failure message carrying the renderer's error.
C2_RendererErrorKeepsInputs ==
  RendererFailed =>
    /\ renderCalls = 1
    /\ fs = fs0
    /\ pc \in {"check", "returned"}
    /\ Returned => result = <<ErrorMsg, status[1]>>

\* C2 case: a returned call whose renderer reported error 2 while all three
\* files existed.
C2_Witness ==
  /\ Returned /\ status = <<2>>
  /\ result = <<ErrorMsg, 2>>
  /\ \A f \in Files : fs[f].exists

\* the markup of the section of file_map entry j for the files at the call
ExpectedSection(j) ==
  IF fs0[FileMap[j].path].exists
  THEN << [tag |-> "h2", text |-> FileMap[j].title],
          [tag |-> "markdown", text |-> Normalize(fs0[FileMap[j].path].content)],
          [tag |-> "pdf:nextpage", text |-> <<>>] >>
  ELSE <<>>

ExpectedCode ==
  IF fs0[CodeFile].exists
  THEN << [tag |-> "h2", text |-> Phase3Title],
          [tag |-> "pre.code-box",
           text |-> HtmlEscape(StripCodeFence(fs0[CodeFile].content))] >>
  ELSE <<>>

\* C3: whatever subset of the input files exists, the markup handed to the
\* renderer is the head, then for each existing file of file_map in list
\* order its heading, rendered content and page break, then the code block if
\* its file exists, then the closing tags; a read error is only ever raised
\* for a file that exists; and with the renderer succeeding and no step
\* raising, the result is the success message.
C3_MarkupOfExistingFiles ==
  /\ pc \in {"render", "check", "remove", "return"} =>
        parts = HtmlHead \o ExpectedSection(1) \o ExpectedSection(2)
                  \o ExpectedCode \o HtmlTail
  /\ (Returned /\ result = <<ExceptionMsg, "OSError: read">>) =>
        \E f \in Files : fs0[f].exists
  /\ (RendererSucceeded /\ NoException) => result[1] = SuccessMsg

\* C3 case: the first section file is missing, the second and the code file
\* exist, and the call returned success with the rendered artifact written.
C3_Witness ==
  /\ Returned /\ result[1] = SuccessMsg
  /\ ~fs0[SpecFile].exists /\ fs0[TechFile].exists /\ fs0[CodeFile].exists
  /\ artifact[outPath].exists
  /\ Len(artifact[outPath].content) = Len(HtmlHead) + 3 + 2 + Len(HtmlTail)

\* ------------------------------ _unwrap_hardwrap_paragraphs, line by line

MaxReflowLines == 3

Ln_blank == <<>>
Ln_a == <<"a">>
Ln_bc == <<" ", "b", " ", "c", " ">>
Ln_heading == <<"#", " ", "h">>
Ln_dash == <<"-", " ", "x">>
Ln_glyph == <<BULLET, " ", "x">>
Ln_paren == <<"1", ")", " ", "x">>
Ln_hash == <<"#">>
Ln_minus == <<"-">>

ReflowPool ==
  {Ln_blank, Ln_a, Ln_bc, Ln_heading, Ln_dash, Ln_glyph, Ln_paren, Ln_hash, Ln_minus}

\* the texts of 1..n lines drawn from a pool
TextsOf(pool, n) == {JoinLines(q) : q \in UNION {[1..m -> pool] : m \in 1..n}}

ReflowInputs == TextsOf(ReflowPool, MaxReflowLines)

ReflowInit ==
  /\ CompileIdle
  /\ raw \in ReflowInputs
  /\ stage = "split" /\ cur = <<>> /\ pass = 0 /\ snap = <<>>
  /\ lines = <<>> /\ idx = 0 /\ st = UnwrapStart

\* s.replace(...), lines = s.split("\n"), out = [], buf = ""
ReflowSplit ==
  /\ stage = "split"
  /\ lines' = SplitLines(ReplaceCR(raw))
  /\ idx' = 1 /\ st' = UnwrapStart /\ stage' = "loop"
  /\ UNCHANGED <<raw, cur, pass, snap>>
  /\ UNCHANGED compileVars

\* one iteration of "for raw in lines"
ReflowLine ==
  /\ stage = "loop" /\ idx <= Len(lines)
  /\ st' = UnwrapStep(st, lines[idx])
  /\ idx' = idx + 1
  /\ UNCHANGED <<raw, stage, cur, pass, snap, lines>>
  /\ UNCHANGED compileVars

\* after the loop
ReflowJoin ==
  /\ stage = "loop" /\ idx > Len(lines)
  /\ cur' = UnwrapFinish(st)
  /\ stage' = "done"
  /\ UNCHANGED <<raw, pass, snap, lines, idx, st>>
  /\ UNCHANGED compileVars

ReflowNext == ReflowSplit \/ ReflowLine \/ ReflowJoin

ReflowSpec == ReflowInit /\ [][ReflowNext]_vars

\* the class of an input line, by the stage's own tests
LineClass(l) ==
  IF Strip(l) = <<>> THEN "Blank"
  ELSE IF ReflowIsHeading(l) THEN "Heading"
  ELSE IF ReflowIsList(l) THEN "ListItem"
  ELSE "PlainText"

IsPlain(l) == LineClass(l) = "PlainText"

\* the lines that start a unit of output: every Blank, Heading and ListItem
\* line, and the first line of every maximal run of PlainText lines
UnitStarts(ls) ==
  {i \in 1..Len(ls) : ~IsPlain(ls[i]) \/ i = 1 \/ ~IsPlain(ls[i - 1])}

NthStart(ls, j) ==
  CHOOSE i \in UnitStarts(ls) : Cardinality({x \in UnitStarts(ls) : x <= i}) = j

\* the last line of the maximal run of PlainText lines that starts at i
RunEnd(ls, i) == Last(i, Len(ls), LAMBDA e : \A m \in i..e : IsPlain(ls[m]))

\* the lines i..e, each trimmed, joined by single spaces in their order
RECURSIVE Paragraph(_, _, _)
Paragraph(ls, i, e) ==
  IF e = i THEN Strip(ls[i])
  ELSE Paragraph(ls, i, e - 1) \o <<" ">> \o Strip(ls[e])

UnitText(ls, i) ==
  IF LineClass(ls[i]) = "Blank" THEN <<>>
  ELSE IF IsPlain(ls[i]) THEN Paragraph(ls, i, RunEnd(ls, i))
  ELSE Strip(ls[i])

ExpectedUnits(ls) ==
  [j \in 1..Cardinality(UnitStarts(ls)) |-> UnitText(ls, NthStart(ls, j))]

NonBlank(ls) == SelectSeq(ls, LAMBDA l : Strip(l) # <<>>)

\* C5: after every iteration the emitted lines (with the pending paragraph)
\* are, in input order, one line per Blank, Heading or ListItem line (the
\* trimmed line itself) and one line per maximal run of PlainText lines (its
\* lines trimmed and joined by single spaces), so no paragraph holds a heading
\* or a list item or spans a blank line; and the returned text consists of
\* exactly these non-blank lines in this order.
C5_ReflowUnits ==
  /\ stage \in {"loop", "done"} =>
        Flush(st).out = ExpectedUnits(SubSeq(lines, 1, idx - 1))
  /\ stage = "done" =>
        NonBlank(SplitLines(cur)) = NonBlank(ExpectedUnits(lines))

\* C5 case: two different PlainText lines followed by a Heading line were
\* reflowed into two lines
C5_Witness ==
  /\ stage = "done" /\ Len(lines) = 3
  /\ IsPlain(lines[1]) /\ IsPlain(lines[2]) /\ LineClass(lines[3]) = "Heading"
  /\ lines[1] # lines[2]
  /\ Len(SplitLines(cur)) = 2

\* --------------------------- _standardize_tool_list_section, line by line

MaxStdLines == 3

Ln_title == Title
Ln_other == <<"#", " ", "O">>
Ln_Flask == <<"F", "l", "a", "s", "k">>
Ln_item == <<"-", " ", "A", " ", "t", "o", "o", "l">>
Ln_star == <<"*", " ", "x">>
Ln_desc == <<"A", " ", "t", "o", "o", "l">>
Ln_glyphThe == <<BULLET, " ", "T", "h", "e", " ", "x">>
Ln_numbered == <<"1", ".", " ", "y">>

Ln_h2title == CanonicalTitle
Ln_h3title == <<"#">> \o CanonicalTitle
Ln_about == <<"#", " ", "M", "y", " ">> \o Title
Ln_this == <<"T", "h", "i", "s", " ", "x">>

StdPool ==
  {Ln_title, Ln_other, Ln_Flask, Ln_item, Ln_star, Ln_desc, Ln_blank, Ln_glyphThe,
   Ln_numbered, Ln_h2title, Ln_h3title, Ln_about, Ln_this}

\* n times the character c
Rep(c, n) == [i \in 1..n |-> c]

Glyphed(l) == <<BULLET, " ">> \o l

\* candidates at the name threshold and with sentence-final punctuation
ThresholdNames ==
  {Rep("n", 60), Rep("n", 61), Glyphed(Rep("n", 60)), Glyphed(Rep("n", 61)),
   Ln_Flask \o <<".">>, Ln_Flask \o <<"!">>, Ln_Flask \o <<"?">>,
   Ln_Flask \o <<IDEOSTOP>>}

\* next lines at the description threshold
ThresholdDescs ==
  {Rep("d", 30), Rep("d", 31), Glyphed(Rep("d", 30)), Glyphed(Rep("d", 31))}

ThresholdInputs ==
  {JoinLines(<<Ln_title, n, d>>) : n \in ThresholdNames, d \in ThresholdDescs}
    \cup {JoinLines(<<Ln_title, Ln_Flask, d>>) : d \in ThresholdDescs}

StdInputs == TextsOf(StdPool, MaxStdLines) \cup ThresholdInputs

StdInit ==
  /\ CompileIdle
  /\ raw \in StdInputs
  /\ stage = "split" /\ cur = <<>> /\ pass = 0 /\ snap = <<>>
  /\ lines = <<>> /\ idx = 0 /\ st = StdStart

\* md.replace(...), lines = md.split("\n"), out = [], i = 0, in_lib_section = False
StdSplit ==
  /\ stage = "split"
  /\ lines' = SplitLines(ReplaceCR(raw))
  /\ st' = StdStart /\ stage' = "loop"
  /\ UNCHANGED <<raw, cur, pass, snap, idx>>
  /\ UNCHANGED compileVars

\* one iteration of "while i < len(lines)"
StdLine ==
  /\ stage = "loop" /\ st.i <= Len(lines)
  /\ st' = StdStep(lines, st)
  /\ UNCHANGED <<raw, stage, cur, pass, snap, lines, idx>>
  /\ UNCHANGED compileVars

\* return "\n".join(out)
StdJoin ==
  /\ stage = "loop" /\ st.i > Len(lines)
  /\ cur' = JoinLines(st.out)
  /\ stage' = "done"
  /\ UNCHANGED <<raw, pass, snap, lines, idx, st>>
  /\ UNCHANGED compileVars

StdNext == StdSplit \/ StdLine \/ StdJoin

StdSpec == StdInit /\ [][StdNext]_vars

\* line i of the input lies inside the scope: a title line precedes it and no
\* heading other than the title stands between that title line and line i,
\* line i itself included
InScope(ls, i) ==
  /\ ~IsTitleLine(Strip(ls[i]))
  /\ \E t \in 1..(i - 1) :
        /\ IsTitleLine(Strip(ls[t]))
        /\ \A m \in (t + 1)..i :
              ~(StdIsHeading(ls[m]) /\ ~ContainsTitle(Strip(ls[m])))

\* C10: in the returned text every input line that lies inside the scope and
\* is a list item is one of the output lines, unchanged.
C10_ListItemKept ==
  stage = "done" =>
    \A i \in 1..Len(lines) :
      (InScope(lines, i) /\ StdIsListItem(lines[i])) =>
        \E j \in 1..Len(st.out) : st.out[j] = lines[i]

\* ------------------------------------- _normalize_markdown, stage by stage

MaxNormBlocks == 3
MaxBodyBlocks == 1

Blk_gap == <<"\n", "\n">>
Blk_page == Page \o <<" ", "1">>
Blk_risks == Txt_Risks
Blk_title == <<"#", " ", "T">>
Blk_fence == Fence3
Blk_fence2page == Fence2 \o Page \o <<" ", "1">>
Blk_glyph == <<BULLET, " ", "b">>
Blk_inline == <<"x", " ">> \o Fence3 \o <<"p", "y", " ", "r">>

Blk_tick == <<BACKTICK>>
Blk_nested == <<BACKTICK>> \o Fence2 \o Markdown \o <<BACKTICK>>

NormPool ==
  {Ln_blank, Blk_gap, Ln_a, Blk_page, Blk_risks, Blk_title, Blk_fence,
   Blk_fence2page, Blk_glyph, Blk_inline, Blk_tick, Blk_nested}

WrapOpeners == {Fence3 \o Markdown, Fence3, Fence2 \o Markdown}

\* opening fence line, the title line, the body, closing fence line
Wrapped(opener, body) ==
  JoinLines(<<opener, Blk_title, body, SubSeq(opener, 1, Len(opener) - Len(Markdown))>>)

WrappedInputs ==
  {Wrapped(o, b) : o \in WrapOpeners, b \in TextsOf(NormPool, MaxBodyBlocks)}

MaxSectionLines == 3

\* texts that hold a "Libraries and Tools" section
SectionPool == {Ln_title, CanonicalTitle, Ln_Flask, Ln_desc, Ln_blank}

SectionInputs == TextsOf(SectionPool, MaxSectionLines)

NormInputs == TextsOf(NormPool, MaxNormBlocks) \cup WrappedInputs \cup SectionInputs

Stages ==
  {"begin", "page", "fence", "reflow", "std", "promote", "markers", "headings", "cleanup"}

NormInit ==
  /\ CompileIdle
  /\ raw \in NormInputs
  /\ stage = "begin" /\ cur = raw /\ pass = 1
  /\ snap = [x \in Stages |-> <<>>]
  /\ lines = <<>> /\ idx = 0 /\ st = <<>>

\* one assignment "s = ..." of _normalize_markdown
Advance(name, next, text) ==
  /\ cur' = text
  /\ stage' = next
  /\ snap' = IF pass = 1 THEN [snap EXCEPT ![name] = text] ELSE snap
  /\ UNCHANGED <<raw, pass, lines, idx, st>>
  /\ UNCHANGED compileVars

\* if not s: return ""; then the replacement of \r\n and \r
NormBegin ==
  /\ stage = "begin"
  /\ IF cur = <<>>
     THEN Advance("begin", "done", <<>>)
     ELSE Advance("begin", "page", ReplaceCR(cur))

NormPage == stage = "page" /\ Advance("page", "fence", StripPageMarkers(cur))

NormFence == stage = "fence" /\ Advance("fence", "reflow", StripFences(cur))

NormReflow == stage = "reflow" /\ Advance("reflow", "std", Unwrap(cur))

NormStd == stage = "std" /\ Advance("std", "promote", Standardize(cur))

NormPromote == stage = "promote" /\ Advance("promote", "markers", Promote(cur))

NormMarkers == stage = "markers" /\ Advance("markers", "headings", NormalizeMarkers(cur))

NormHeadings == stage = "headings" /\ Advance("headings", "cleanup", BlankAfterHeadings(cur))

NormCleanup == stage = "cleanup" /\ Advance("cleanup", "done", Cleanup(cur))

\* the returned text is normalised again
NormAgain ==
  /\ stage = "done" /\ pass = 1
  /\ pass' = 2 /\ stage' = "begin"
  /\ snap' = [snap EXCEPT !["cleanup"] = cur]
  /\ UNCHANGED <<raw, cur, lines, idx, st>>
  /\ UNCHANGED compileVars

NormNext ==
  \/ NormBegin
  \/ NormPage
  \/ NormFence
  \/ NormReflow
  \/ NormStd
  \/ NormPromote
  \/ NormMarkers
  \/ NormHeadings
  \/ NormCleanup
  \/ NormAgain

NormSpec == NormInit /\ [][NormNext]_vars

\* the first call has returned
FirstDone == (pass = 1 /\ stage = "done") \/ pass = 2

\* the text the first call returned
FirstOut == IF pass = 1 THEN cur ELSE snap["cleanup"]

\* the stages compose to the function
NormStagesAgree == FirstDone => FirstOut = Normalize(raw)

\* ------------------------------------------ claims on _normalize_markdown

\* C4: the text returned by a second call on the returned text of the first
\* call equals the returned text of the first call.
C4_Idempotent == (pass = 2 /\ stage = "done") => cur = snap["cleanup"]

RawLines == SplitLines(ReplaceCR(raw))

\* a line that holds a page marker and nothing else
IsPageLine(l) == Strip(l) # <<>> /\ StripPageMarkers(l) = <<>>

\* a page-marker line stands directly between two PlainText lines of the input
MarkerBetweenPlain ==
  \E i \in 2..(Len(RawLines) - 1) :
    /\ IsPageLine(RawLines[i])
    /\ IsPlain(RawLines[i - 1]) /\ ~IsPageLine(RawLines[i - 1])
    /\ IsPlain(RawLines[i + 1]) /\ ~IsPageLine(RawLines[i + 1])

WithoutPageLines == JoinLines(SelectSeq(RawLines, LAMBDA l : ~IsPageLine(l)))

\* C6: when a page-marker line stands directly between two PlainText lines,
\* the returned text is the one returned for the same input without its
\* page-marker lines: the marker leaves no paragraph break behind.
C6_MarkerLeavesNoBreak ==
  (FirstDone /\ MarkerBetweenPlain) => FirstOut = Normalize(WithoutPageLines)

NoFenceMarker(t) ==
  \A i \in 1..(Len(t) - 1) : ~(t[i] = BACKTICK /\ t[i + 1] = BACKTICK)

\* opening fence line, the line "# T", any body, closing fence line
IsWrapped(t) ==
  LET ls == SplitLines(t)
  IN /\ Len(ls) >= 3
     /\ ls[1] \in WrapOpeners
     /\ ls[2] = Blk_title
     /\ ls[Len(ls)] \in {Fence3, Fence2}

HasLine(t, l) == \E j \in 1..Len(SplitLines(t)) : SplitLines(t)[j] = l

AfterFenceStage == pass = 2 \/ stage \notin {"begin", "page", "fence"}

\* C7: from the fence stage on, and so in the returned text, no two backticks
\* stand next to each other; and for an input wrapped in an opening and a
\* closing fence line around "# T" and a body, the returned text has the
\* line "# T", which is a heading line.
C7_NoFenceMarkerLeft ==
  /\ AfterFenceStage => NoFenceMarker(cur)
  /\ (stage = "done" /\ IsWrapped(raw)) =>
        HasLine(cur, Blk_title) /\ ReflowIsHeading(Blk_title)

\* C7 case: a wrapped input whose body holds a two-backtick marker has been
\* normalised
C7_Witness ==
  /\ stage = "done" /\ pass = 1
  /\ raw \in WrappedInputs
  /\ \E i \in (Len(Fence3 \o Markdown) + 1)..(Len(raw) - 4) : HasAt(raw, i, Fence2)
  /\ HasLine(cur, Blk_title)

\* C8: every interior line of the text handed to the fence stage (every line
\* but the first and the last) is still a line of the text the stage returns.
C8_InteriorKept ==
  AfterFenceStage =>
    LET before == SplitLines(snap["page"])
    IN \A i \in 2..(Len(before) - 1) : HasLine(snap["fence"], before[i])

IsBlankLine(l) == Strip(l) = <<>>

NonBlankAt(ls) == {i \in 1..Len(ls) : ~IsBlankLine(ls[i])}

NthOf(set, n) == CHOOSE i \in set : Cardinality({x \in set : x <= i}) = n

\* C9: when the returned text has as many non-blank lines as the input, two
\* neighbouring non-blank input lines with three or more blank lines between
\* them are returned with exactly one blank line between them; and the
\* returned text has no two consecutive blank lines and neither starts nor
\* ends with a blank line.
C9_BlankRunsCollapsed ==
  FirstDone =>
    LET inL == RawLines
        outL == SplitLines(FirstOut)
        inNB == NonBlankAt(inL)
        outNB == NonBlankAt(outL)
    IN /\ Cardinality(inNB) = Cardinality(outNB) =>
            \A n \in 1..(Cardinality(inNB) - 1) :
              NthOf(inNB, n + 1) - NthOf(inNB, n) > 3 =>
                NthOf(outNB, n + 1) - NthOf(outNB, n) = 2
       /\ \A j \in 1..(Len(outL) - 1) : ~(IsBlankLine(outL[j]) /\ IsBlankLine(outL[j + 1]))
       /\ FirstOut # <<>> => ~IsBlankLine(outL[1]) /\ ~IsBlankLine(outL[Len(outL)])

\* ------------------------------ claims on _standardize_tool_list_section

\* the loop is about to process line st.i
AtLine == stage = "loop" /\ st.i <= Len(lines)

\* line i lies inside the scope, is neither blank nor a heading nor a list
\* item, and without its bullet glyph looks like a name
NameAt(ls, i) ==
  /\ InScope(ls, i)
  /\ ~IsBlankLine(ls[i]) /\ ~StdIsHeading(ls[i]) /\ ~StdIsListItem(ls[i])
  /\ LooksLikeToolName(CleanBulletPrefix(ls[i]))

\* line i exists and looks like a description
DescAt(ls, i) == i <= Len(ls) /\ LooksLikeDescription(ls[i])

Unbulleted(l) == IsPlain(l) /\ CleanBulletPrefix(l) = Strip(l)

\* C12: when the input holds a title line followed by an unbulleted name line
\* and an unbulleted description line, the text returned by
\* _normalize_markdown has the line "- **name**: description".
C12_PairThroughPipeline ==
  FirstDone =>
    \A t \in 1..(Len(RawLines) - 2) :
      ( /\ IsTitleLine(Strip(RawLines[t]))
        /\ Unbulleted(RawLines[t + 1]) /\ LooksLikeToolName(RawLines[t + 1])
        /\ Unbulleted(RawLines[t + 2]) /\ LooksLikeDescription(RawLines[t + 2]) )
      => HasLine(FirstOut,
                 BulletWithDesc(Strip(RawLines[t + 1]), Strip(RawLines[t + 2])))

\* line i is neither a title line nor inside the scope
Outside(ls, i) == ~IsTitleLine(Strip(ls[i])) /\ ~InScope(ls, i)

NoTitleLine(ls) == \A i \in 1..Len(ls) : ~IsTitleLine(Strip(ls[i]))

AfterPromoteStage ==
  pass = 2 \/ stage \notin {"begin", "page", "fence", "reflow", "std", "promote"}

\* the trimmed line is one vocabulary word, in any case
IsVocabLine(l) ==
  \E n \in 1..Len(SectionWords) :
    Len(Strip(l)) = Len(SectionWords[n]) /\ HasAtCI(Strip(l), 1, SectionWords[n])

VocabHeading(l) ==
  LET n == CHOOSE m \in 1..Len(SectionWords) :
             Len(Strip(l)) = Len(SectionWords[m]) /\ HasAtCI(Strip(l), 1, SectionWords[m])
  IN <<"#", "#", " ">> \o SectionWords[n]

\* C14: the promotion returns as many non-blank lines as it is given; a line
\* that is one vocabulary word is returned as "## Word", every other
\* non-blank line (a word among other text, a heading-marked word, a word in
\* a joined paragraph) is returned as it was.
C14_PromotionByLine ==
  AfterPromoteStage =>
    LET before == NonBlank(SplitLines(snap["std"]))
        after == NonBlank(SplitLines(snap["promote"]))
    IN /\ Len(after) = Len(before)
       /\ \A n \in 1..Len(before) :
            after[n] = IF IsVocabLine(before[n]) THEN VocabHeading(before[n])
                       ELSE before[n]

\* ------------------------------------------- more claims on _run

\* the code with its fence wrapper removed: without the first line when the
\* trimmed content starts with a fence marker, and then without the last
\* line when that line is a fence marker
UnwrappedCode(content) ==
  LET c == Strip(content)
      ls == SplitLines(c)
      closed == Len(ls) >= 2 /\ Strip(ls[Len(ls)]) = Fence3
  IN IF HasAt(c, 1, Fence3)
     THEN JoinLines(SubSeq(ls, 2, IF closed THEN Len(ls) - 1 ELSE Len(ls)))
     ELSE c

MarkupReady == pc \in {"render", "check", "remove", "return"}

\* C15: the code block of the assembled markup holds the (escaped) code of
\* the code file without its fence wrapper: the opening marker line and the
\* closing marker line are removed, a last line that is no fence marker is
\* kept, and content that does not start with a fence marker is embedded as
\* it is, trimmed.
C15_CodeFenceWrapper ==
  (MarkupReady /\ fs0[CodeFile].exists) =>
    parts[Len(parts) - 1] =
      [tag |-> "pre.code-box",
       text |-> HtmlEscape(UnwrappedCode(fs0[CodeFile].content))]

Positions ==
  {"idle", "makedirs", "section", "code", "render", "check", "remove", "return",
   "returned"}

Causes ==
  {"FileNotFoundError: makedirs", "OSError: makedirs", "OSError: read",
   "OSError: open", "renderer exception", "OSError: remove"}

Failed(cause) == Returned /\ result = <<ExceptionMsg, cause>>

\* C16: control never leaves _run other than by its return; the returned
\* result is the success message, the renderer-error message or the exception
\* message with the cause of the failed step; and a failed step ends the
\* call: after a failed makedirs nothing is assembled, after a failed read or
\* open the renderer is not called and no file is removed, after a failed
\* remove the file that could not be removed is still there.
C16_NoExceptionEscapes ==
  /\ pc \in Positions
  /\ Returned =>
        \/ result = <<SuccessMsg, outPath>>
        \/ \E err \in RenderErrs : result = <<ErrorMsg, err>>
        \/ \E cause \in Causes : result = <<ExceptionMsg, cause>>
  /\ (Failed("FileNotFoundError: makedirs") \/ Failed("OSError: makedirs")) =>
        parts = <<>> /\ renderCalls = 0 /\ fs = fs0
  /\ (Failed("OSError: read") \/ Failed("OSError: open")) =>
        renderCalls = 0 /\ status = <<>> /\ fs = fs0
  /\ Failed("renderer exception") => status = <<>> /\ fs = fs0
  /\ Failed("OSError: remove") =>
        RendererSucceeded /\ fs[RemoveList[k]].exists

\* C16 case: the removal of the second file failed after the first file was
\* removed, and the call returned the exception message
C16_Witness ==
  /\ Failed("OSError: remove")
  /\ k = 2 /\ fs0[SpecFile].exists /\ ~fs[SpecFile].exists

\* the trimmed line is the section title, bare or after one to six hashes
\* and white space, in any case
TitleAnyLevel(l) ==
  LET t == Strip(l)
  IN \E h \in 0..MaxHashes :
       /\ \A n \in 1..h : n <= Len(t) /\ t[n] = "#"
       /\ h > 0 => SkipWS(t, h + 1) > h + 1
       /\ HasAtCI(t, SkipWS(t, h + 1), Title)
       /\ SkipWS(t, h + 1) + Len(Title) = Len(t) + 1

\* the loop has just processed line st.i - 1
JustPast == stage \in {"loop", "done"} /\ st.i > 1

\* C17: once the loop has passed a title line, bare or heading-marked at any
\* level, the scope is entered, the canonical heading is the line emitted
\* for it, and the loop stands at the next line.
C17_TitleEntersScope ==
  (JustPast /\ TitleAnyLevel(lines[st.i - 1])) =>
    /\ st.inLib
    /\ st.out # <<>> /\ st.out[Len(st.out)] = CanonicalTitle

\* a heading line that is not the section title
ExitHeading(l) == StdIsHeading(l) /\ ~TitleAnyLevel(l)

\* line i is such a heading or comes after one with no title line since
AfterExit(ls, i) ==
  \E h \in 1..i :
    /\ ExitHeading(ls[h])
    /\ \A m \in (h + 1)..i : ~TitleAnyLevel(ls[m])

\* C18: an iteration at a heading that is not the section title (also one
\* whose text holds the title among other words), or at any line after such a
\* heading up to the next title line, appends the line unchanged, advances by
\* one line and leaves the loop outside the scope.
C18_HeadingExitsScope ==
  [][ (AtLine /\ AfterExit(lines, st.i)) =>
        /\ st'.i = st.i + 1
        /\ st'.out = Append(st.out, lines[st.i])
        /\ ~st'.inLib
    ]_vars

\* line i exists and, without its bullet glyph, starts with one of the
\* openers that disqualify a name
OpenerAt(ls, i) ==
  i <= Len(ls) /\ StartsWithOpener(CleanBulletPrefix(ls[i]), NameOpeners)

\* C19: every opener that disqualifies a name qualifies a description: an
\* iteration at a name candidate whose next line starts with one of them
\* (A, An, The, This, It, Used, Provides, ...) appends
\* "- **name**: description" and advances by two lines, whatever the length
\* of that line.
C19_SameOpeners ==
  [][ (AtLine /\ NameAt(lines, st.i) /\ OpenerAt(lines, st.i + 1)) =>
        /\ st'.i = st.i + 2
        /\ st'.out = Append(st.out,
              BulletWithDesc(CleanBulletPrefix(lines[st.i]),
                             CleanBulletPrefix(lines[st.i + 1])))
    ]_vars

\* line i lies inside the scope and is neither blank, a heading nor a list item
EntryAt(ls, i) ==
  /\ InScope(ls, i)
  /\ ~IsBlankLine(ls[i]) /\ ~StdIsHeading(ls[i]) /\ ~StdIsListItem(ls[i])

SentenceFinal(t) == t # <<>> /\ t[Len(t)] \in {".", "!", "?", IDEOSTOP}

\* the line just appended is a bullet with the name c
NamedBullet(out, c) ==
  out # <<>> /\ HasAt(out[Len(out)], 1, <<"-", " ", "*", "*">> \o c \o <<"*", "*">>)

\* a next line that is text with no opener in front
PlainDesc(t) ==
  /\ t # <<>> /\ ~StdIsHeading(t) /\ ~StdIsListItem(t)
  /\ ~StartsWithOpener(t, NameOpeners)

\* C20: for an iteration at an entry line inside the scope with candidate c
\* (the line without its bullet glyph): c of at most 60 characters with no
\* sentence-final punctuation and no opener is emitted as the name of a
\* bullet; c of 61 or more characters, or ending in . ! ? or the ideographic
\* full stop, is emitted as plain text; and after a name a next line without
\* an opener is taken as the description when it has 31 or more characters
\* and is left for the next iteration when it has 30 or fewer.
C20_Thresholds ==
  [][ (AtLine /\ EntryAt(lines, st.i)) =>
        LET c == CleanBulletPrefix(lines[st.i])
            d == IF st.i + 1 <= Len(lines) THEN CleanBulletPrefix(lines[st.i + 1])
                 ELSE <<>>
            nameLike == c # <<>> /\ ~StdIsHeading(c) /\ ~StdIsListItem(c)
                          /\ ~SentenceFinal(c) /\ ~StartsWithOpener(c, NameOpeners)
        IN /\ (nameLike /\ Len(c) <= 60) => NamedBullet(st'.out, c)
           /\ (Len(c) >= 61 \/ SentenceFinal(c)) => st'.out = Append(st.out, c)
           /\ (nameLike /\ Len(c) <= 60 /\ PlainDesc(d) /\ Len(d) >= 31) =>
                 st'.i = st.i + 2
           /\ (nameLike /\ Len(c) <= 60 /\ PlainDesc(d) /\ Len(d) <= 30) =>
                 st'.i = st.i + 1
    ]_vars

\* C20 case: a candidate of exactly 60 characters under a bullet glyph was
\* emitted as the name with the 31 characters of the next line as description
C20_Witness ==
  /\ stage = "loop" /\ st.i = 4
  /\ lines = <<Ln_title, Glyphed(Rep("n", 60)), Rep("d", 31)>>
  /\ st.out = <<CanonicalTitle, BulletWithDesc(Rep("n", 60), Rep("d", 31))>>

\* ---------------------------------------------- claims across the stages

\* C21: a line that the reflow stage classifies as a ListItem is classified as
\* a list item by the standardizer too, and an iteration of the standardizer
\* at such a line inside the scope appends the line as it is and advances by
\* one line.
C21_SameListClass ==
  [][ (AtLine /\ InScope(lines, st.i) /\ LineClass(lines[st.i]) = "ListItem") =>
        /\ StdIsListItem(lines[st.i])
        /\ st'.i = st.i + 1
        /\ st'.out = Append(st.out, lines[st.i])
    ]_vars

\* the line starts like a bullet written by the standardizer
BulletShaped(l) == HasAt(l, 1, <<"-", " ", "*", "*">>)

\* C22: every iteration of the standardizer appends one line and advances by
\* one or two lines, so the output never has more lines than the input. At a
\* line inside the scope: a blank line is emitted as an empty line and a
\* heading line as a line that is no bullet; a second line is taken (as the
\* description) only when it is neither blank nor a heading; and a line that
\* is no list item and, without its bullet prefix, does not look like a name
\* is emitted without that prefix as plain text, one line consumed.
C22_NoBulletFromStructure ==
  [][ /\ AtLine =>
           /\ Len(st'.out) = Len(st.out) + 1
           /\ st'.i \in {st.i + 1, st.i + 2}
           /\ Len(st'.out) <= st'.i - 1
      /\ (AtLine /\ InScope(lines, st.i)) =>
           LET l == lines[st.i]
               c == CleanBulletPrefix(l)
               emitted == st'.out[Len(st'.out)]
           IN /\ IsBlankLine(l) => (emitted = <<>> /\ st'.i = st.i + 1)
              /\ StdIsHeading(l) => (~BulletShaped(emitted) /\ st'.i = st.i + 1)
              /\ st'.i = st.i + 2 =>
                    /\ ~IsBlankLine(lines[st.i + 1])
                    /\ ~StdIsHeading(lines[st.i + 1])
              /\ (~IsBlankLine(l) /\ ~StdIsListItem(l) /\ ~LooksLikeToolName(c)) =>
                    (emitted = c /\ st'.i = st.i + 1)
      /\ (stage = "loop" /\ stage' = "done") =>
           Len(SplitLines(cur')) <= Len(lines)
    ]_vars

\* C22 case: inside the scope the line "(glyph) The x", which does not look
\* like a name, was emitted as the plain line "The x", and the blank line
\* after it as an empty line
C22_Witness ==
  /\ stage = "done"
  /\ lines = <<Ln_title, Ln_glyphThe, Ln_blank>>
  /\ st.out = <<CanonicalTitle, <<"T", "h", "e", " ", "x">>, <<>>>>

\* ------------------------------------------------ more claims on reflow

Structural(ls) == SelectSeq(ls, LAMBDA l : LineClass(l) \in {"Heading", "ListItem"})

\* C23: the paragraph being joined from PlainText lines is itself a PlainText
\* line after every iteration, and the returned text has exactly as many
\* Heading and ListItem lines as the input has.
C23_JoinStaysPlain ==
  /\ stage = "loop" => (st.buf = <<>> \/ IsPlain(st.buf))
  /\ stage = "done" => Len(Structural(SplitLines(cur))) = Len(Structural(lines))

\* --------------------------------------------- claims on failure and re-run

FailureResult == Returned /\ result[1] \in {ErrorMsg, ExceptionMsg}

\* C24: whenever _run has returned a failure result (the renderer-error
\* message or the exception message), every intermediate file that existed
\* at the call still exists.
C24_FailureKeepsInputs ==
  FailureResult => \A f \in Files : fs0[f].exists => fs[f].exists

\* the current call follows a call that returned success for the same path
Rerun ==
  /\ pc # "idle" /\ Len(prev) = 2
  /\ prev[2] = outPath /\ prev[1] = <<SuccessMsg, outPath>>

TitleOnly == HtmlHead \o HtmlTail

\* C25: in a call that follows a call that returned success for the same
\* output path, every intermediate file is missing, no section and no code
\* block is added to the markup, the renderer is called once unless makedirs
\* or open raised, and with the renderer reporting success the artifact at
\* the output path holds the report with the title alone and the call
\* returns the success message.
C25_RerunAfterSuccess ==
  Rerun =>
    /\ \A f \in Files : ~fs0[f].exists /\ ~fs[f].exists
    /\ pc \in {"section", "code"} => parts = HtmlHead
    /\ MarkupReady => parts = TitleOnly
    /\ NoException => renderCalls = 1
    /\ RendererSucceeded => artifact[outPath] = FileOf(TitleOnly)
    /\ (RendererSucceeded /\ Returned) => result = <<SuccessMsg, outPath>>

\* C25 case: the second call returned success and left the report with the
\* title alone at the path of the first call
C25_Witness ==
  /\ Rerun /\ Returned /\ calls = 2
  /\ result = <<SuccessMsg, outPath>>
  /\ artifact[outPath] = FileOf(TitleOnly)

\* failures of the environment: every cause but the makedirs of an empty
\* directory name
EnvCauses == Causes \ {"FileNotFoundError: makedirs"}

\* C26: for every output path, a returned call in which no read, open,
\* makedirs or remove failed on the environment and the renderer neither
\* raised nor reported an error has written the artifact at that path and
\* returned the success message.
C26_AnyOutputPath ==
  (Returned /\ ~RendererFailed /\ \A cause \in EnvCauses : ~Failed(cause)) =>
    /\ result = <<SuccessMsg, outPath>>
    /\ artifact[outPath] = FileOf(parts)

====
